---- MODULE Spec2Model ----
(***************************************************************************)
(* Model of src/main.py: the spreadsheet normalizer (tratar_planilha), the *)
(* persistence gateway (salvar_no_banco, carregar_dados_do_banco with its  *)
(* cached connection), the upload handler "Processar e Salvar" and the     *)
(* main area (the "due today" table and the four filters).                 *)
(*                                                                         *)
(* A table (DataFrame) is a record [kind, cols, rows]: cols is the         *)
(* sequence of column names, rows the sequence of rows, a row being the    *)
(* sequence of its cells in column order.  A cell is a record [t, v, d, h]:*)
(* t = "str" (text v), "nan" (NaN / None), "ts" (a timestamp: day d of     *)
(* May 2024 at hour h) or "nat" (NaT).  Text is a TLA+ string, so Python's *)
(* `x in y` on text is a real substring search.  TLC keeps ASCII text only, *)
(* so the accented letters of the source's names are written unaccented    *)
(* (Convenio, Validacao, Data lancamento); case is kept as in the source.  *)
(***************************************************************************)
EXTENDS Integers, Sequences, FiniteSets, TLC

VARIABLES
    pc,             \* position of the script run
    uploaded,       \* the DataFrame pd.read_excel gives for the uploaded file
    df_tratado,     \* result of tratar_planilha
    sucesso,        \* result of salvar_no_banco: "none", "True", "False", "raised"
    engine,         \* salvar_no_banco's local `engine`: "unbound", "created", "disposed"
    save_calls,     \* number of calls of salvar_no_banco in this pass
    writes,         \* number of statements salvar_no_banco sent to the store
    store,          \* the backing table tabela_corte
    prior,          \* the store's content when the pass began
    ui,             \* what the handler showed last
    host,           \* st.secrets["mysql"]["host"]
    cache,          \* st.cache_resource's entry for init_connection
    conn,           \* carregar_dados_do_banco's local `conn`
    attempts,       \* connection attempts of the running reconnect loop
    connects,       \* connection attempts made in this load
    probe,          \* outcome of the check-up: "none", "passed", "failed"
    read_on,        \* the kind of connection pd.read_sql ran on
    load_err,       \* the exception pd.read_sql raised: [kind, msg]
    st_error,       \* whether carregar_dados_do_banco called st.error
    df_banco,       \* what carregar_dados_do_banco returned
    hoje,           \* datetime.now().date()
    filtros,        \* the four sidebar widgets
    df_hoje,        \* the "due today" table
    df_visualizacao \* the filtered view

vars == << pc, uploaded, df_tratado, sucesso, engine, save_calls, writes, store,
           prior, ui, host, cache, conn, attempts, connects, probe, read_on,
           load_err, st_error, df_banco, hoje, filtros, df_hoje, df_visualizacao >>

uploadVars == << uploaded, df_tratado, sucesso, engine, save_calls, writes, prior, ui >>
loadVars == << cache, conn, attempts, connects, probe, read_on, load_err, st_error, df_banco >>
viewVars == << hoje, filtros, df_hoje, df_visualizacao >>

-----------------------------------------------------------------------------
(* Bounds of the model *)

MaxRows == 2
MaxDateCols == 2
MaxViewRows == 2

-----------------------------------------------------------------------------
(* Cells and tables *)

Str(s) == [t |-> "str", v |-> s, d |-> 0, h |-> 0]
NaN == [t |-> "nan", v |-> "", d |-> 0, h |-> 0]
Ts(day, hour) == [t |-> "ts", v |-> "", d |-> day, h |-> hour]
NaT == [t |-> "nat", v |-> "", d |-> 0, h |-> 0]

Table(cols, rows) == [kind |-> "table", cols |-> cols, rows |-> rows]
NoTable == [kind |-> "none", cols |-> <<>>, rows |-> <<>>]
False == [kind |-> "False", cols |-> <<>>, rows |-> <<>>]
Raised == [kind |-> "raised", cols |-> <<>>, rows |-> <<>>]
EmptyDataFrame == Table(<<>>, <<>>)

\* Python's None where a column name is expected (next(..., None))
None == "<None>"

\* Python's `sub in s` on two strings
Contains(sub, s) ==
    \E i \in 1..(Len(s) - Len(sub) + 1) : SubSeq(s, i, i + Len(sub) - 1) = sub

\* pd.isna
isna(c) == c.t \in {"nan", "nat"}

HasCol(cols, name) == \E i \in 1..Len(cols) : cols[i] = name
CountCol(cols, name) == Cardinality({i \in 1..Len(cols) : cols[i] = name})
Index(cols, name) ==
    CHOOSE i \in 1..Len(cols) : cols[i] = name /\ \A j \in 1..(i - 1) : cols[j] # name

\* row[name]
Cell(cols, row, name) == row[Index(cols, name)]

-----------------------------------------------------------------------------
(* pd.to_datetime(errors='coerce') on one cell: a timestamp stays, a text  *)
(* of the form 2024-05-DD is parsed, anything else becomes NaT.            *)

DayOf(dd) == CASE dd = "01" -> 1 [] dd = "02" -> 2 [] dd = "03" -> 3 [] OTHER -> 0

to_datetime(c) ==
    CASE c.t = "ts" -> c
      [] c.t = "str" /\ Len(c.v) = 10 /\ SubSeq(c.v, 1, 8) = "2024-05-"
                     /\ DayOf(SubSeq(c.v, 9, 10)) # 0
            -> Ts(DayOf(SubSeq(c.v, 9, 10)), 0)
      [] OTHER -> NaT

\* df[col] = pd.to_datetime(df[col], errors='coerce') for a column that is there once
ConvertCol(cols, rows, name) ==
    IF ~HasCol(cols, name) THEN rows
    ELSE [r \in 1..Len(rows) |->
            [i \in 1..Len(cols) |->
                IF i = Index(cols, name) THEN to_datetime(rows[r][i]) ELSE rows[r][i]]]

-----------------------------------------------------------------------------
(* tratar_planilha *)

palavras_chave == <<"FEDERAL", "ESTADUAL", "MUNICIPAL", "Governos">>

tem_palavra_chave(valor_coluna_conv) ==
    /\ valor_coluna_conv.t = "str"
    /\ \E k \in 1..Len(palavras_chave) : Contains(palavras_chave[k], valor_coluna_conv.v)

outras_colunas_vazias(valor_validacao) ==
    \E k \in 1..Len(palavras_chave) : valor_validacao = Str(palavras_chave[k])

\* a separator as soon as one of the two tests holds
eh_separador_ou(cols, row) ==
    \/ tem_palavra_chave(Cell(cols, row, "Convenio"))
    \/ outras_colunas_vazias(Cell(cols, row, "Validacao"))

eh_separador(cols, row) ==
    /\ tem_palavra_chave(Cell(cols, row, "Convenio"))
    /\ outras_colunas_vazias(Cell(cols, row, "Validacao"))

indices_para_remover(df) ==
    {i \in 1..Len(df.rows) : eh_separador(df.cols, df.rows[i])}

\* df.drop(indices): the rows whose index label is not listed, in order
drop(rows, indices) ==
    LET f[i \in 0..Len(rows)] ==
            IF i = 0 THEN <<>>
            ELSE IF i \in indices THEN f[i - 1] ELSE Append(f[i - 1], rows[i])
    IN f[Len(rows)]

\* df.dropna(subset=[name])
dropna(cols, rows, name) ==
    SelectSeq(rows, LAMBDA r : ~isna(Cell(cols, r, name)))

\* next((c for c in columns if sub in c), None)
FirstCol(cols, sub) ==
    IF \E i \in 1..Len(cols) : Contains(sub, cols[i])
    THEN cols[CHOOSE i \in 1..Len(cols) :
                 /\ Contains(sub, cols[i])
                 /\ \A j \in 1..(i - 1) : ~Contains(sub, cols[j])]
    ELSE None

\* df.rename(columns={k1: v1, k2: v2}): the dict keeps the last value of a
\* repeated key, and a key that names no column renames nothing
rename(cols, k1, v1, k2, v2) ==
    [i \in 1..Len(cols) |->
        IF cols[i] = k2 THEN v2 ELSE IF cols[i] = k1 THEN v1 ELSE cols[i]]

\* lines 215-220: the date conversion; df[col] is a DataFrame when the label
\* is there twice, and pd.to_datetime raises on it
ConvertDates(cols, rows) ==
    IF CountCol(cols, "Data de Corte") > 1 \/ CountCol(cols, "Data de Lancamento") > 1
    THEN Raised
    ELSE Table(cols, ConvertCol(cols, ConvertCol(cols, rows, "Data de Corte"),
                                "Data de Lancamento"))

\* one column of the source pair is taken for the pair
RenameBranch_ou(col_origem_corte, col_origem_lanc, col_atualiza_corte, col_atualiza_lanc) ==
    IF col_origem_corte # None \/ col_origem_lanc # None THEN "origem"
    ELSE IF col_atualiza_corte # None /\ col_atualiza_lanc # None THEN "atualiza"
    ELSE "else"

\* lines 198-213: which branch renames
RenameBranch(col_origem_corte, col_origem_lanc, col_atualiza_corte, col_atualiza_lanc) ==
    IF col_origem_corte # None /\ col_origem_lanc # None THEN "origem"
    ELSE IF col_atualiza_corte # None /\ col_atualiza_lanc # None THEN "atualiza"
    ELSE "else"

tratar_planilha(df) ==
    IF \/ ~HasCol(df.cols, "Convenio")
       \/ (df.rows # <<>> /\ ~HasCol(df.cols, "Validacao"))
    THEN Raised     \* KeyError
    ELSE
    LET df_clean == dropna(df.cols, drop(df.rows, indices_para_remover(df)), "Convenio")
        col_origem_corte == FirstCol(df.cols, "Data corte")
        col_origem_lanc == FirstCol(df.cols, "Data lancamento")
        col_atualiza_corte == FirstCol(df.cols, "Data de Corte")
        col_atualiza_lanc == FirstCol(df.cols, "Data de Lancamento")
        branch == RenameBranch(col_origem_corte, col_origem_lanc,
                               col_atualiza_corte, col_atualiza_lanc)
    IN  IF branch = "else" THEN False
        ELSE ConvertDates(rename(df.cols, col_origem_corte, "Data de Corte",
                                 col_origem_lanc, "Data de Lancamento"),
                          df_clean)

-----------------------------------------------------------------------------
(* The backing table.  to_sql writes every missing value (NaN, None, NaT)  *)
(* as NULL; pd.read_sql gives NULL back as None.                           *)

NULL == [t |-> "null", v |-> "", d |-> 0, h |-> 0]

NoStore == [exists |-> FALSE, cols |-> <<>>, rows |-> <<>>]

SqlValue(c) == IF isna(c) THEN NULL ELSE c
PyValue(c) == IF c = NULL THEN NaN ELSE c

SqlRows(df) ==
    [r \in 1..Len(df.rows) |-> [i \in 1..Len(df.cols) |-> SqlValue(df.rows[r][i])]]

\* df.to_sql(..., if_exists=...): 'replace' drops the table and creates it
\* from df; 'append' inserts df's rows after the rows the table holds
to_sql(st, df, if_exists) ==
    IF if_exists = "append" /\ st.exists
    THEN [exists |-> TRUE, cols |-> st.cols, rows |-> st.rows \o SqlRows(df)]
    ELSE [exists |-> TRUE, cols |-> df.cols, rows |-> SqlRows(df)]

\* the write adds to the table instead of replacing it
if_exists_append == "append"

\* line 118: the only value salvar_no_banco passes
if_exists == "replace"

\* the write stopped after DROP/CREATE (DDL is committed at once) and before
\* the INSERT
CreatedEmpty(df) == [exists |-> TRUE, cols |-> df.cols, rows |-> <<>>]

-----------------------------------------------------------------------------
(* salvar_no_banco(df).  amb is what the environment does to this call:    *)
(*   "sem_secrets"   st.secrets["mysql"][...] raises KeyError              *)
(*   "engine_erro"   create_engine raises                                  *)
(*   "conexao_erro"  engine.connect() raises                               *)
(*   "sql_erro"      to_sql raises before any statement took effect        *)
(*   "insert_erro"   to_sql raises after the table was dropped and created *)
(*   "ok"            nothing fails                                         *)
(* The result is [ret, engine, store, writes].                             *)

Ambientes == {"sem_secrets", "engine_erro", "conexao_erro", "sql_erro", "insert_erro", "ok"}

\* the finally clause: engine.dispose() on a name that may be unbound
Dispose(ret, eng) ==
    IF eng = "unbound" THEN [ret |-> "raised", engine |-> "unbound"]
    ELSE [ret |-> ret, engine |-> "disposed"]

salvar_no_banco(df, amb, st) ==
    LET out(ret, eng, st2, w) ==
            [ret |-> Dispose(ret, eng).ret, engine |-> Dispose(ret, eng).engine,
             store |-> st2, writes |-> w]
    IN  CASE amb \in {"sem_secrets", "engine_erro"} -> out("False", "unbound", st, 0)
          [] amb = "conexao_erro" -> out("False", "created", st, 0)
          [] OTHER ->
                IF df.kind # "table" THEN out("False", "created", st, 0)  \* AttributeError
                ELSE CASE amb = "sql_erro" -> out("False", "created", st, 0)
                       [] amb = "insert_erro" -> out("False", "created", CreatedEmpty(df), 1)
                       [] OTHER -> out("True", "created", to_sql(st, df, if_exists), 1)

-----------------------------------------------------------------------------
(* The uploaded spreadsheets the model draws from *)

BaseCols == <<"Convenio", "Validacao", "Sistema">>

\* the date cell of the k-th date column of a row
DateCell(conv, k) ==
    IF conv.t = "nan" THEN NaN
    ELSE IF conv.v = "Prefeitura" THEN (IF k % 2 = 1 THEN Ts(1, 0) ELSE Str("2024-05-02"))
    ELSE IF k % 2 = 1 THEN Str("a definir") ELSE Ts(2, 9)

MkRow(conv, val, n) == <<conv, val, Str("S1")>> \o [k \in 1..n |-> DateCell(conv, k)]

ConvPool == {Str("FEDERAL"), Str("Convenio MUNICIPAL 12"), Str("Prefeitura"), NaN}
ValPool == {Str("FEDERAL"), Str("OK"), NaN}

RowPool(n) == {MkRow(c, v, n) : c \in ConvPool, v \in ValPool}

SeqsUpTo(S, n) == UNION {[1..k -> S] : k \in 0..n}

\* layouts that tratar_planilha accepts, with every kind of row
RowLayouts == {<<"Data corte", "Data lancamento">>, <<"Data de Lancamento", "Data de Corte">>}

UploadsRows ==
    {Table(BaseCols \o l, rows) : l \in RowLayouts, rows \in SeqsUpTo(RowPool(2), MaxRows)}

\* every layout of date columns, with a few rows
DateColPool ==
    {"Data corte", "Data lancamento", "Data de Corte", "Data de Lancamento",
     "Data de Corte prevista", "Data de Lancamento prevista", "Data de corte"}

DateLayouts ==
    {l \in SeqsUpTo(DateColPool, MaxDateCols) :
        \A i, j \in 1..Len(l) : i # j => l[i] # l[j]}

FewRows(n) ==
    {<<>>, <<MkRow(Str("Prefeitura"), Str("OK"), n)>>,
     <<MkRow(Str("FEDERAL"), Str("FEDERAL"), n), MkRow(Str("Prefeitura"), NaN, n)>>}

UploadsCols ==
    UNION {{Table(BaseCols \o l, rows) : rows \in FewRows(Len(l))} : l \in DateLayouts}

\* a sheet without the Validacao column
UploadsSemValidacao ==
    {Table(<<"Convenio", "Data corte", "Data lancamento">>,
           <<<<Str("Prefeitura"), Ts(1, 0), Ts(2, 0)>>>>)}

Uploads == UploadsRows \cup UploadsCols \cup UploadsSemValidacao

\* what the store may hold when a pass begins
PriorStores ==
    {NoStore,
     to_sql(NoStore, tratar_planilha(Table(BaseCols \o <<"Data corte", "Data lancamento">>,
                                           <<MkRow(Str("Antigo"), Str("OK"), 2)>>)),
            "replace")}

Hosts == {"tidb.example.com", "db1146.example.com"}

-----------------------------------------------------------------------------
(* The upload handler, lines 266-292 *)

NoErr == [kind |-> "none", msg |-> ""]
NoFiltros == [convenio |-> {}, sistema |-> {}, data_lanc |-> 0, data_corte |-> 0]

LoadIdle ==
    /\ cache \in {"empty", "conn"}
    /\ conn = "none" /\ attempts = 0 /\ connects = 0 /\ probe = "none"
    /\ read_on = "none" /\ load_err = NoErr /\ st_error = FALSE /\ df_banco = NoTable

ViewIdle ==
    /\ hoje = 1 /\ filtros = NoFiltros /\ df_hoje = NoTable /\ df_visualizacao = NoTable

\* the state when "Processar e Salvar" is pressed on an uploaded file
InitUpload ==
    /\ pc = "botao"
    /\ uploaded \in Uploads
    /\ df_tratado = NoTable /\ sucesso = "none" /\ engine = "unbound"
    /\ save_calls = 0 /\ writes = 0
    /\ store \in PriorStores /\ prior = store
    /\ ui = "none"
    /\ host \in Hosts
    /\ LoadIdle /\ ViewIdle

\* line 275; an exception goes to the handler's except (line 291)
Tratar ==
    /\ pc = "botao"
    /\ df_tratado' = tratar_planilha(uploaded)
    /\ pc' = IF df_tratado'.kind = "raised" THEN "sidebar" ELSE "tratado"
    /\ ui' = IF df_tratado'.kind = "raised" THEN "erro_critico" ELSE ui
    /\ UNCHANGED << uploaded, sucesso, engine, save_calls, writes, store, prior, host >>
    /\ UNCHANGED loadVars /\ UNCHANGED viewVars

\* line 279: sucesso = salvar_no_banco(df_tratado)
Salvar ==
    /\ pc = "tratado"
    /\ \E amb \in Ambientes :
          LET r == salvar_no_banco(df_tratado, amb, store)
          IN  /\ sucesso' = r.ret
              /\ engine' = r.engine
              /\ store' = r.store
              /\ writes' = writes + r.writes
    /\ save_calls' = save_calls + 1
    /\ pc' = "salvo"
    /\ UNCHANGED << uploaded, df_tratado, prior, ui, host >>
    /\ UNCHANGED loadVars /\ UNCHANGED viewVars

\* lines 281-292; after st.rerun(), as after the messages, the script goes
\* on to the sidebar
Concluir ==
    /\ pc = "salvo"
    /\ ui' = CASE sucesso = "True" -> "sucesso"
               [] sucesso = "raised" -> "erro_critico"
               [] OTHER -> "erro_salvar"
    /\ pc' = "sidebar"
    /\ UNCHANGED << uploaded, df_tratado, sucesso, engine, save_calls, writes, store,
                    prior, host >>
    /\ UNCHANGED loadVars /\ UNCHANGED viewVars

NextUpload == Tratar \/ Salvar \/ Concluir

SpecUpload == InitUpload /\ [][NextUpload]_vars

-----------------------------------------------------------------------------
(* carregar_dados_do_banco, lines 27-79, with init_connection, lines 15-24 *)

\* conn.reconnect(attempts=3, delay=2) and conn.ping(reconnect=True, attempts=3, delay=2)
ReconnectAttempts == 3

\* the failed check-up is swallowed and the read goes on with the same connection
ProbeFailed_segue == "read"

\* where the check-up's `except Exception` leads: lines 41-44
ProbeFailed == "except"

\* str(e) of what pd.read_sql raises
TableMissing ==
    [kind |-> "table_missing",
     msg |-> "Execution failed on sql 'SELECT * FROM tabela_corte': "
             \o "1146 (42S02): Table 'convenios.tabela_corte' doesn't exist"]

LostConnection(h) ==
    [kind |-> "lost_connection",
     msg |-> "Execution failed on sql 'SELECT * FROM tabela_corte': "
             \o "2055: Lost connection to MySQL server at '" \o h
             \o ":4000', system error: 32 Broken pipe"]

\* pd.read_sql('SELECT * FROM tabela_corte', conn)
read_sql(st) ==
    Table(st.cols, [r \in 1..Len(st.rows) |->
                       [i \in 1..Len(st.cols) |-> PyValue(st.rows[r][i])]])

\* lines 54-60: the date columns, when present, through pd.to_datetime
ConvertLoaded(df) ==
    Table(df.cols, ConvertCol(df.cols, ConvertCol(df.cols, df.rows, "Data de Lancamento"),
                              "Data de Corte"))

\* lines 63-79: `"1146" in str(e)` decides whether st.error is called
ErrorIsShown(e) == ~Contains("1146", e.msg)

\* lines 47-79: [df, st_error] for the outcome e of pd.read_sql
LoadReturn(e, st) ==
    IF e.kind = "none" THEN [df |-> ConvertLoaded(read_sql(st)), st_error |-> FALSE]
    ELSE [df |-> EmptyDataFrame, st_error |-> ErrorIsShown(e)]

\* line 32: conn = init_connection(); the cached connection, or (no entry, or
\* the ttl ran out) a new one, whose failure to connect leaves the function
InitConnection ==
    /\ pc = "sidebar"
    /\ \E hit \in {h \in BOOLEAN : h => cache = "conn"}, ok \in BOOLEAN :
          IF hit
          THEN /\ conn' = "cached" /\ pc' = "is_connected"
               /\ UNCHANGED << cache, connects, df_banco >>
          ELSE /\ connects' = connects + 1
               /\ IF ok
                  THEN conn' = "created" /\ cache' = "conn" /\ pc' = "is_connected"
                       /\ UNCHANGED df_banco
                  ELSE conn' = "none" /\ cache' = "empty" /\ pc' = "fim"
                       /\ df_banco' = Raised
    /\ UNCHANGED << attempts, probe, read_on, load_err, st_error, store, host >>
    /\ UNCHANGED uploadVars /\ UNCHANGED viewVars

\* line 37: if not conn.is_connected()
IsConnected ==
    /\ pc = "is_connected"
    /\ \E b \in BOOLEAN : pc' = IF b THEN "ping" ELSE "reconnect"
    /\ attempts' = 0
    /\ UNCHANGED << cache, conn, connects, probe, read_on, load_err, st_error, df_banco,
                    store, host >>
    /\ UNCHANGED uploadVars /\ UNCHANGED viewVars

\* one attempt of the reconnect loop; the last failed one raises
Attempt(loop, onSuccess, probeAfter) ==
    /\ pc = loop
    /\ attempts < ReconnectAttempts
    /\ attempts' = attempts + 1
    /\ connects' = connects + 1
    /\ \E ok \in BOOLEAN :
          IF ok THEN pc' = onSuccess /\ probe' = probeAfter
          ELSE /\ pc' = IF attempts' = ReconnectAttempts THEN ProbeFailed ELSE loop
               /\ UNCHANGED probe
    /\ UNCHANGED << cache, conn, read_on, load_err, st_error, df_banco, store, host >>
    /\ UNCHANGED uploadVars /\ UNCHANGED viewVars

\* line 38: conn.reconnect(attempts=3, delay=2)
Reconnect == Attempt("reconnect", "ping", "none")

\* line 40: conn.ping(reconnect=True, attempts=3, delay=2): the ping itself
Ping ==
    /\ pc = "ping"
    /\ \E ok \in BOOLEAN :
          IF ok THEN pc' = "read" /\ probe' = "passed"
          ELSE pc' = "ping_reconnect" /\ UNCHANGED probe
    /\ attempts' = 0
    /\ UNCHANGED << cache, conn, connects, read_on, load_err, st_error, df_banco,
                    store, host >>
    /\ UNCHANGED uploadVars /\ UNCHANGED viewVars

\* line 40: the reconnect ping falls back to
PingReconnect == Attempt("ping_reconnect", "read", "passed")

\* lines 41-44: st.cache_resource.clear(); conn = init_connection()
Except ==
    /\ pc = "except"
    /\ probe' = "failed"
    /\ connects' = connects + 1
    /\ \E ok \in BOOLEAN :
          IF ok THEN conn' = "fresh" /\ cache' = "conn" /\ pc' = "read"
                     /\ UNCHANGED df_banco
          ELSE conn' = "none" /\ cache' = "empty" /\ pc' = "fim" /\ df_banco' = Raised
    /\ UNCHANGED << attempts, read_on, load_err, st_error, store, host >>
    /\ UNCHANGED uploadVars /\ UNCHANGED viewVars

\* lines 47-79: the read and what the function returns
Read ==
    /\ pc = "read"
    /\ read_on' = IF probe = "passed" THEN "probed" ELSE conn
    /\ \E lost \in BOOLEAN :
          /\ load_err' = IF lost THEN LostConnection(host)
                         ELSE IF store.exists THEN NoErr ELSE TableMissing
          /\ df_banco' = LoadReturn(load_err', store).df
          /\ st_error' = LoadReturn(load_err', store).st_error
    /\ pc' = "fim"
    /\ UNCHANGED << cache, conn, attempts, connects, probe, store, host >>
    /\ UNCHANGED uploadVars /\ UNCHANGED viewVars

Carregar == InitConnection \/ IsConnected \/ Reconnect \/ Ping \/ PingReconnect
            \/ Except \/ Read

-----------------------------------------------------------------------------
(* A pass of the script through the sidebar's load: with the button        *)
(* pressed on an uploaded file, or without an upload.                      *)

GatewayRowPool ==
    {MkRow(Str("Prefeitura"), Str("OK"), 2), MkRow(Str("FEDERAL"), Str("FEDERAL"), 2),
     MkRow(Str("Convenio MUNICIPAL 12"), NaN, 2)}

GatewayUploads ==
    {Table(BaseCols \o l, rows) :
        l \in RowLayouts \cup {<<"Data corte", "Data de Lancamento">>},
        rows \in SeqsUpTo(GatewayRowPool, MaxRows)}

InitGateway ==
    /\ \/ pc = "botao" /\ uploaded \in GatewayUploads
       \/ pc = "sidebar" /\ uploaded = NoTable
    /\ df_tratado = NoTable /\ sucesso = "none" /\ engine = "unbound"
    /\ save_calls = 0 /\ writes = 0
    /\ store \in PriorStores /\ prior = store
    /\ ui = "none"
    /\ host \in Hosts
    /\ LoadIdle /\ ViewIdle

NextGateway == Tratar \/ Salvar \/ Concluir \/ Carregar

SpecGateway == InitGateway /\ [][NextGateway]_vars

-----------------------------------------------------------------------------
(* The main area, lines 343-438, and the sidebar's widgets, lines 312-340. *)
(* A date is the day of May 2024; 0 stands for None (a date_input left     *)
(* empty) and for the .dt.date of NaT, which equals no date.               *)

\* Series.dt.date of one cell
dt_date(c) == IF c.t = "ts" THEN c.d ELSE 0

\* df[names]
Project(df, names) ==
    Table(names, [r \in 1..Len(df.rows) |->
                     [i \in 1..Len(names) |-> df.rows[r][Index(df.cols, names[i])]]])

colunas_resumo_hoje == <<"Convenio", "Data de Corte", "Data de Lancamento">>
colunas_resumo == <<"Convenio", "Data de Corte", "Sistema", "Data de Lancamento">>

\* due today when the cutoff date or the launch date is today
filtro_hoje_ou_corte(cols, row, hj) ==
    \/ dt_date(Cell(cols, row, "Data de Lancamento")) = hj
    \/ dt_date(Cell(cols, row, "Data de Corte")) = hj

\* lines 360-362
filtro_hoje(cols, row, hj) == dt_date(Cell(cols, row, "Data de Lancamento")) = hj

\* lines 356-373
TabelaHojeDe(df, hj) ==
    LET hojeRows == Table(df.cols, SelectSeq(df.rows,
                                             LAMBDA r : filtro_hoje(df.cols, r, hj)))
        cols_existentes == SelectSeq(colunas_resumo_hoje, LAMBDA c : HasCol(df.cols, c))
    IN  Project(hojeRows, cols_existentes)

\* Series.isin(values) on one cell
isin(c, values) == c.t = "str" /\ c.v \in values

\* lines 403-404
FiltroConvenio(df, f) ==
    IF f.convenio # {}
    THEN Table(df.cols, SelectSeq(df.rows, LAMBDA r :
                        isin(Cell(df.cols, r, "Convenio"), f.convenio)))
    ELSE df

\* lines 407-408
FiltroSistema(df, f) ==
    IF f.sistema # {}
    THEN Table(df.cols, SelectSeq(df.rows, LAMBDA r :
                        isin(Cell(df.cols, r, "Sistema"), f.sistema)))
    ELSE df

\* lines 411-413
FiltroDataLancamento(df, f) ==
    IF f.data_lanc # 0
    THEN Table(df.cols, SelectSeq(df.rows, LAMBDA r :
                        dt_date(Cell(df.cols, r, "Data de Lancamento")) = f.data_lanc))
    ELSE df

\* the cutoff-date widget filters on the launch date
FiltroDataCorte_lanc(df, f) ==
    IF f.data_corte # 0
    THEN Table(df.cols, SelectSeq(df.rows, LAMBDA r :
                        dt_date(Cell(df.cols, r, "Data de Lancamento")) = f.data_corte))
    ELSE df

\* lines 416-417
FiltroDataCorte(df, f) ==
    IF f.data_corte # 0
    THEN Table(df.cols, SelectSeq(df.rows, LAMBDA r :
                        dt_date(Cell(df.cols, r, "Data de Corte")) = f.data_corte))
    ELSE df

\* lines 391-417
Filtrar(df, f) ==
    FiltroDataCorte(FiltroDataLancamento(FiltroSistema(FiltroConvenio(
        Project(df, colunas_resumo), f), f), f), f)

\* Series.unique() of a text column
Unique(df, name) ==
    {Cell(df.cols, df.rows[r], name).v :
        r \in {q \in 1..Len(df.rows) : Cell(df.cols, df.rows[q], name).t = "str"}}

Dias == {1, 2}

\* what the widgets of lines 312-337 let the user pick
Escolhas(df) ==
    [convenio : SUBSET Unique(df, "Convenio"), sistema : SUBSET Unique(df, "Sistema"),
     data_lanc : {0} \cup Dias, data_corte : {0} \cup Dias]

\* line 237-243
limpar_tudo == NoFiltros

ViewCols == BaseCols \o <<"Data corte", "Data lancamento">>

ViewRow(conv, sis, corte, lanc) == <<Str(conv), Str("OK"), Str(sis), corte, lanc>>

ViewRowPool ==
    {ViewRow("A", "S1", Ts(1, 0), Ts(1, 0)),
     ViewRow("A", "S2", Ts(1, 8), Str("2024-05-02")),
     ViewRow("B", "S1", Ts(2, 0), Ts(1, 15)),
     ViewRow("B", "S2", NaN, Ts(2, 0)),
     ViewRow("C", "S1", Ts(1, 0), Str("a definir"))}

\* the tables a load returns after such sheets were saved
LoadedTables ==
    {LoadReturn(NoErr, to_sql(NoStore, tratar_planilha(Table(ViewCols, rows)), "replace")).df :
        rows \in SeqsUpTo(ViewRowPool, MaxViewRows) \ {<<>>}}

InitView ==
    /\ pc = "main"
    /\ df_banco \in LoadedTables
    /\ hoje \in Dias
    /\ filtros = NoFiltros /\ df_hoje = NoTable /\ df_visualizacao = NoTable
    /\ uploaded = NoTable /\ df_tratado = NoTable /\ sucesso = "none"
    /\ engine = "unbound" /\ save_calls = 0 /\ writes = 0
    /\ store = NoStore /\ prior = NoStore /\ ui = "none"
    /\ host = "tidb.example.com"
    /\ cache = "conn" /\ conn = "none" /\ attempts = 0 /\ connects = 0
    /\ probe = "none" /\ read_on = "none" /\ load_err = NoErr /\ st_error = FALSE

\* lines 354-389
TabelaHoje ==
    /\ pc = "main"
    /\ df_hoje' = TabelaHojeDe(df_banco, hoje)
    /\ pc' = "hoje"
    /\ UNCHANGED << hoje, filtros, df_visualizacao, store, host >>
    /\ UNCHANGED uploadVars /\ UNCHANGED loadVars

\* lines 391-438
AplicarFiltros ==
    /\ pc = "hoje"
    /\ df_visualizacao' = Filtrar(df_banco, filtros)
    /\ pc' = "fim_view"
    /\ UNCHANGED << hoje, filtros, df_hoje, store, host >>
    /\ UNCHANGED uploadVars /\ UNCHANGED loadVars

\* the user changes one widget; the script runs again
MudarFiltros ==
    /\ pc = "fim_view"
    /\ filtros' \in {f \in Escolhas(df_banco) :
                        Cardinality({k \in DOMAIN f : f[k] # filtros[k]}) = 1}
    /\ pc' = "main"
    /\ df_hoje' = NoTable /\ df_visualizacao' = NoTable
    /\ UNCHANGED << hoje, store, host >>
    /\ UNCHANGED uploadVars /\ UNCHANGED loadVars

\* "Limpar Filtros", line 340
LimparFiltros ==
    /\ pc = "fim_view"
    /\ filtros # NoFiltros
    /\ filtros' = limpar_tudo
    /\ pc' = "main"
    /\ df_hoje' = NoTable /\ df_visualizacao' = NoTable
    /\ UNCHANGED << hoje, store, host >>
    /\ UNCHANGED uploadVars /\ UNCHANGED loadVars

NextView == TabelaHoje \/ AplicarFiltros \/ MudarFiltros \/ LimparFiltros

SpecView == InitView /\ [][NextView]_vars

-----------------------------------------------------------------------------
(* The claims *)

\* a column of either family is there
AnyContains(cols, sub) == \E i \in 1..Len(cols) : Contains(sub, cols[i])
PairOrigem(cols) == AnyContains(cols, "Data corte") /\ AnyContains(cols, "Data lancamento")
PairCanonical(cols) ==
    AnyContains(cols, "Data de Corte") /\ AnyContains(cols, "Data de Lancamento")
SomeDateCol(cols) ==
    \/ AnyContains(cols, "Data corte") \/ AnyContains(cols, "Data lancamento")
    \/ AnyContains(cols, "Data de Corte") \/ AnyContains(cols, "Data de Lancamento")
RequiredCols(cols) == HasCol(cols, "Convenio") /\ HasCol(cols, "Validacao")

\* C1: in the upload handler, for an uploaded table with neither recognized
\* pair of date columns, tratar_planilha fails and salvar_no_banco is not
\* invoked afterwards in that pass: no save is attempted, no write occurs.
C1_NoSaveAfterFailedNormalization ==
    (pc # "botao" /\ RequiredCols(uploaded.cols)
     /\ ~PairOrigem(uploaded.cols) /\ ~PairCanonical(uploaded.cols))
        => (df_tratado = False /\ save_calls = 0 /\ writes = 0 /\ store = prior)

Keywords == {"FEDERAL", "ESTADUAL", "MUNICIPAL", "Governos"}

\* the rows the claim C2 says are kept
KeptRows(df) ==
    SelectSeq(df.rows, LAMBDA r :
        LET c == Cell(df.cols, r, "Convenio")
            v == Cell(df.cols, r, "Validacao")
            separator == /\ c.t = "str" /\ \E kw \in Keywords : Contains(kw, c.v)
                         /\ v.t = "str" /\ v.v \in Keywords
        IN  ~separator /\ c.t # "nan")

C3_CanonicalDateColumns ==
    (pc # "botao" /\ df_tratado.kind = "table")
        => /\ CountCol(df_tratado.cols, "Data de Corte") = 1
           /\ CountCol(df_tratado.cols, "Data de Lancamento") = 1

\* C4: a table with a column of some date pair and no complete pair makes
\* tratar_planilha return the failure sentinel.
C4_PartialPairFails ==
    (pc # "botao" /\ RequiredCols(uploaded.cols) /\ SomeDateCol(uploaded.cols)
     /\ ~PairOrigem(uploaded.cols) /\ ~PairCanonical(uploaded.cols))
        => df_tratado = False

\* a cutoff column of one family and a launch column of the other
C4_Witness ==
    /\ pc # "botao" /\ df_tratado = False
    /\ HasCol(uploaded.cols, "Data corte") /\ HasCol(uploaded.cols, "Data de Lancamento")
    /\ Len(uploaded.rows) > 0

\* C5: a read that failed for another reason than the missing table is
\* reported (st.error or an exception): the load is silent about a failed
\* read only when the table does not exist.
C5_OtherFailuresSurfaced ==
    (pc = "fim" /\ load_err.kind \notin {"none", "table_missing"})
        => (st_error \/ df_banco.kind = "raised")

\* the load that follows the save read the store without error
SavedAndLoaded ==
    /\ pc = "fim" /\ sucesso = "True" /\ read_on # "none" /\ load_err = NoErr

\* C6, as amended: salvar_no_banco has no append mode; a successful save
\* replaces the table, and the load that follows yields the saved table's
\* columns and rows, none of the prior content.
C6_SaveReplaces == SavedAndLoaded => df_banco = df_tratado

\* rows were saved over a table that held another row, and came back
C6_Witness ==
    /\ SavedAndLoaded /\ prior.exists /\ Len(prior.rows) = 1
    /\ Len(df_tratado.rows) = 2 /\ df_banco = df_tratado
    /\ \E r \in 1..2 : \E i \in 1..Len(df_tratado.cols) : df_tratado.rows[r][i] = NaT

\* C6 as claimed: for each of the modes replace and append, save followed by
\* load yields what that mode asks for: with append, the prior rows and
\* then the new rows.
C6_SaveSupportsAppend ==
    \A modo \in {"replace", "append"} :
        SavedAndLoaded => df_banco = LoadReturn(NoErr, to_sql(prior, df_tratado, modo)).df

\* the rows of the projected table that pass every filter that is set
Matching(df, f) ==
    SelectSeq(Project(df, colunas_resumo).rows, LAMBDA r :
        /\ f.convenio # {} => (r[1].t = "str" /\ r[1].v \in f.convenio)
        /\ f.sistema # {} => (r[3].t = "str" /\ r[3].v \in f.sistema)
        /\ f.data_lanc # 0 => (r[4].t = "ts" /\ r[4].d = f.data_lanc)
        /\ f.data_corte # 0 => (r[2].t = "ts" /\ r[2].d = f.data_corte))

\* C7: the filtered view holds exactly the rows that satisfy every filter
\* that is set, in their order; with no filter set, every row.
C7_FiltersConjoin ==
    pc = "fim_view"
        => /\ df_visualizacao.cols = colunas_resumo
           /\ df_visualizacao.rows = Matching(df_banco, filtros)
           /\ filtros = NoFiltros => Len(df_visualizacao.rows) = Len(df_banco.rows)

\* two filters are set, one of them a date, and they keep one row of two
C7_Witness ==
    /\ pc = "fim_view" /\ filtros.convenio # {} /\ filtros.data_corte # 0
    /\ Len(df_banco.rows) = 2 /\ Len(df_visualizacao.rows) = 1
    /\ \E r \in 1..2 : /\ Cell(df_banco.cols, df_banco.rows[r], "Data de Corte").d
                            = filtros.data_corte
                       /\ Cell(df_banco.cols, df_banco.rows[r], "Convenio").v
                            \notin filtros.convenio

C9_ReadOnCheckedConnection ==
    /\ pc = "read" => \/ probe = "passed"
                      \/ probe = "failed" /\ conn = "fresh" /\ cache = "conn"
    /\ read_on \in {"none", "probed", "fresh"}
    /\ attempts <= ReconnectAttempts
    /\ connects <= 2 * ReconnectAttempts + 2
    /\ (pc = "fim" /\ df_banco.kind = "raised") => (read_on = "none" /\ conn = "none")
    /\ (pc = "fim" /\ read_on = "none") => df_banco.kind = "raised"

\* the check-up failed after its attempts, the cache was cleared and the
\* read ran on the new connection
C9_Witness ==
    /\ pc = "fim" /\ probe = "failed" /\ read_on = "fresh"
    /\ connects > ReconnectAttempts /\ df_banco.kind = "table"

\* C10: salvar_no_banco never raises and returns a boolean, True exactly
\* when the write ran and committed; a failure before the engine exists
\* gives False as well.
C10_SaveReturnsBoolean ==
    save_calls > 0
        => /\ sucesso \in {"True", "False"}
           /\ sucesso = "True" <=> (writes = 1 /\ store = to_sql(prior, df_tratado, if_exists))
====
